---- MODULE Spec2Model ----
(***************************************************************************)
(* Network-inventory collection pipeline.                                  *)
(*   producer (lambda/producer/lambda_function.py): the Dispatcher scans   *)
(*     the account registry, filters active accounts, expands them into    *)
(*     (account, region) work items and publishes one event per item.      *)
(*   consumer (lambda/consumer/lambda_function.py): the Batch Consumer     *)
(*     decodes each delivered message, resolves a client, runs the three   *)
(*     resource collectors and writes one JSONL object per resource type.  *)
(***************************************************************************)
EXTENDS Integers, Sequences, FiniteSets, TLC

VARIABLES
    \* ---- producer ----
    table,                 \* the registry table: a sequence of account items
    scanned,               \* how many table items the scan has returned so far
    response,              \* the scan so far: [lek: the last response carried
                           \* LastEvaluatedKey, requests: table.scan calls made,
                           \* failed: a call raised, pages: the responses
                           \* received, each [start: the ExclusiveStartKey of
                           \* its request, items, lek]]
    accounts,              \* `items` / `accounts`: the scanned account list
    active_accounts,       \* filter_active_accounts(accounts)
    ai,                    \* index of the account the outer loop is at
    account_region_pairs,  \* expand_account_regions(active_accounts[ai])
    ri,                    \* index of the pair the inner loop is at
    total_events, success_count, failure_count,
    sns,                   \* every sns.publish request: [acct, pos, region,
                           \* payload, req, ok]
    raisedAt,              \* items whose payload could not be built: [acct, region]
    ppc,                   \* producer position
    presult,               \* value returned by the producer lambda_handler
    \* ---- consumer ----
    batch,                 \* event['Records']
    idx,                   \* index of the record the loop is at
    cpc,                   \* consumer position
    processed_count, failed_count,
    now,                   \* the clock, in seconds
    cur,                   \* locals of the message in flight
    s3store,               \* bucket contents: key -> body
    attempts,              \* per record index: how many times its try block was entered
    raises,                \* how many exceptions reached the handler's except clause
    cresult,               \* value returned by the consumer lambda_handler
    ec2                    \* what the describe calls answer when they succeed

pvars == <<table, scanned, response, accounts, active_accounts, ai,
           account_region_pairs, ri, total_events, success_count, failure_count,
           sns, raisedAt, ppc, presult>>
cvars == <<batch, idx, cpc, processed_count, failed_count, now, cur, s3store,
           attempts, raises, cresult, ec2>>
vars == <<pvars, cvars>>

(***************************************************************************)
(* Bounds of the model.                                                    *)
(***************************************************************************)
MaxAccounts == 2      \* items in the registry table
MaxBatch == 2         \* records in one delivered batch
MaxClock == 1         \* seconds the clock may advance during one invocation

(***************************************************************************)
(* Python values.  A dict is a function from key strings to values; a key  *)
(* that is absent is outside the DOMAIN.                                   *)
(***************************************************************************)
None == [t |-> "none"]
Str(chars) == [t |-> "str", v |-> chars]
Bool(b) == [t |-> "bool", v |-> b]
PyInt(n) == [t |-> "int", v |-> n]
List(s) == [t |-> "list", v |-> s]
PySet(S) == [t |-> "set", v |-> S]
Decimal(digits) == [t |-> "decimal", v |-> digits]   \* a DynamoDB Number, as boto3 reads it

Has(d, k) == k \in DOMAIN d
Get(d, k, default) == IF k \in DOMAIN d THEN d[k] ELSE default

SeqToSet(s) == {s[i] : i \in 1..Len(s)}

\* All orderings of a finite set, as sequences without repetition.
Orderings(S) ==
    {s \in [1..Cardinality(S) -> S] : \A i, j \in 1..Cardinality(S) : i # j => s[i] # s[j]}

(***************************************************************************)
(* str.lower(), character by character.                                    *)
(***************************************************************************)
UpperAlpha == <<"A","B","C","D","E","F","G","H","I","J","K","L","M",
                "N","O","P","Q","R","S","T","U","V","W","X","Y","Z">>
LowerAlpha == <<"a","b","c","d","e","f","g","h","i","j","k","l","m",
                "n","o","p","q","r","s","t","u","v","w","x","y","z">>
LowerChar(c) ==
    IF \E i \in 1..26 : UpperAlpha[i] = c
    THEN LowerAlpha[CHOOSE i \in 1..26 : UpperAlpha[i] = c]
    ELSE c
Lower(chars) == [i \in 1..Len(chars) |-> LowerChar(chars[i])]

ACTIVE == <<"a","c","t","i","v","e">>

(***************************************************************************)
(* The clock.  datetime.utcnow() reads `now`; isoformat() and strftime()   *)
(* render it (the date and the minutes are fixed, the seconds are `now`).  *)
(***************************************************************************)
TwoDigits(n) == IF n < 10 THEN "0" \o ToString(n) ELSE ToString(n)
IsoFormat(n) == "2024-01-01T00:00:" \o TwoDigits(n)
StrFTime(n) == "20240101-0000" \o TwoDigits(n)

(***************************************************************************)
(* json.dumps(obj, default=str) and json.loads.  A str holding JSON text   *)
(* is [t |-> "jsontext", v |-> members]: each member a JSON value.  Any   *)
(* other str is a Str and does not parse.  Values json cannot encode go    *)
(* through default=str.                                                    *)
(***************************************************************************)
\* str(x), as an f-string or default=str renders it
Format(x) == IF x.t = "none" THEN "None" ELSE x.v

JNull == [j |-> "null"]

\* mutant: None is encoded through default=str as well
ToJson_NoneThroughStr(x) ==
    CASE x.t \in {"str", "jsontext"} -> [j |-> "string", v |-> x]
      [] x.t = "bool" -> [j |-> "bool", v |-> x.v]
      [] x.t = "int" -> [j |-> "number", v |-> x.v]
      [] x.t = "list" -> [j |-> "array", v |-> x.v]
      [] OTHER -> [j |-> "string", v |-> Str(Format(x))]

ToJson(x) ==
    CASE x.t = "none" -> JNull
      [] x.t \in {"str", "jsontext"} -> [j |-> "string", v |-> x]
      [] x.t = "bool" -> [j |-> "bool", v |-> x.v]
      [] x.t = "int" -> [j |-> "number", v |-> x.v]
      [] x.t = "list" -> [j |-> "array", v |-> x.v]
      [] OTHER -> [j |-> "string", v |-> Str(Format(x))]
FromJson(y) ==
    CASE y.j = "null" -> None
      [] y.j = "string" -> y.v
      [] y.j = "bool" -> Bool(y.v)
      [] y.j = "number" -> PyInt(y.v)
      [] y.j = "array" -> List(y.v)
JsonDumps(d) == [t |-> "jsontext", v |-> [k \in DOMAIN d |-> ToJson(d[k])]]
JsonLoadsRaises(text) == text.t # "jsontext"
JsonLoads(text) == [k \in DOMAIN text.v |-> FromJson(text.v[k])]

(***************************************************************************)
(*                              PRODUCER                                   *)
(***************************************************************************)
DupRegions == <<Str("us-east-1"), Str("us-east-1"), Str("eu-west-1")>>

AcctDup ==
    [account_id |-> Str("111111111111"), account_name |-> Str("prod"),
     business_unit |-> Str("core"), status |-> Str(<<"a","c","t","i","v","e">>),
     regions |-> List(DupRegions)]
AcctUpper ==
    [account_id |-> Str("222222222222"), account_name |-> Str("dev"),
     status |-> Str(<<"A","c","T","I","V","E">>),
     regions |-> PySet({Str("us-west-2"), Str("eu-west-1")})]
AcctInactive ==
    [account_id |-> Str("333333333333"), account_name |-> Str("old"),
     status |-> Str(<<"I","n","a","c","t","i","v","e">>),
     regions |-> List(<<Str("us-east-1")>>)]
AcctNoStatus ==
    [account_id |-> Str("444444444444"), regions |-> List(<<Str("us-east-1")>>)]
AcctEmptyRegions ==
    [account_id |-> Str("555555555555"), account_name |-> Str("empty"),
     status |-> Str(ACTIVE), regions |-> List(<<>>)]
AcctNoRegions ==
    [account_id |-> Str("666666666666"), status |-> Str(ACTIVE)]
AcctNoId ==
    [account_name |-> Str("anon"), status |-> Str(ACTIVE),
     regions |-> List(<<Str("us-east-1")>>)]
AcctNullStatus ==
    [account_id |-> Str("777777777777"), status |-> None,
     regions |-> List(<<Str("us-east-1")>>)]
AcctNullRegions ==
    [account_id |-> Str("888888888888"), status |-> Str(ACTIVE), regions |-> None]

\* account_id kept as a Number attribute
AcctNumericId ==
    [account_id |-> Decimal("123456789012"), account_name |-> Str("numeric"),
     status |-> Str(ACTIVE), regions |-> List(<<Str("ap-south-1")>>)]

AccountSet == {AcctDup, AcctUpper, AcctInactive, AcctNoStatus, AcctEmptyRegions,
               AcctNoRegions, AcctNoId, AcctNullStatus, AcctNullRegions,
               AcctNumericId}

Tables == UNION {[1..n -> AccountSet] : n \in 0..MaxAccounts}

\* mutant: the status is compared as written
IsActive_CaseSensitive(acc) == Get(acc, "status", Str(<<>>)).v = ACTIVE

\* acc.get('status', '').lower() == 'active'
StatusRaises(acc) == Has(acc, "status") /\ acc["status"].t # "str"
IsActive(acc) == Lower(Get(acc, "status", Str(<<>>)).v) = ACTIVE

\* filter_active_accounts
FilterRaises(accs) == \E i \in 1..Len(accs) : StatusRaises(accs[i])
FilterActiveAccounts(accs) == SelectSeq(accs, IsActive)

\* mutant: an account without regions is an error
ExpandRaises_OnEmpty(acc) ==
    \/ Get(acc, "regions", List(<<>>)).t = "none"
    \/ Get(acc, "regions", List(<<>>)).v \in {<<>>, {}}

\* expand_account_regions: the region lists it may return (a set is listed
\* in an order the build chooses); iterating None raises.
ExpandRaises(acc) == Get(acc, "regions", List(<<>>)).t = "none"
ExpandAccountRegions(acc) ==
    LET regions == Get(acc, "regions", List(<<>>))
    IN  IF regions.t = "set" THEN Orderings(regions.v) ELSE {regions.v}

\* create_event_payload
PayloadRaises(acc) == ~Has(acc, "account_id")
CreateEventPayload(acc, region, t) ==
    [account_id |-> acc["account_id"],
     account_name |-> Get(acc, "account_name", Str("Unknown")),
     business_unit |-> Get(acc, "business_unit", None),
     region |-> region,
     timestamp |-> Str(IsoFormat(t) \o "Z")]

\* the sns.publish request of publish_to_sns
PublishRequest(payload) ==
    [Message |-> JsonDumps(payload),
     Subject |-> "Network Data Collection - " \o Format(payload["account_id"])
                 \o " - " \o Format(payload["region"])]

\* str(e) of the exceptions that reach the outer except of lambda_handler
ScanError == "scan failed"       \* whatever the failed table.scan raised
StatusError == "'NoneType' object has no attribute 'lower'"
RegionsError == "'NoneType' object is not iterable"
AccountIdError == "'account_id'"

ErrorResult(error) ==
    [statusCode |-> 500,
     body |-> [message |-> "Error in network data collection process",
               error |-> error]]
Summary ==
    [statusCode |-> 200,
     body |-> [message |-> "Network data collection process completed",
               total_accounts |-> Len(accounts),
               active_accounts |-> Len(active_accounts),
               total_events_published |-> success_count,
               failed_events |-> failure_count,
               timestamp |-> IsoFormat(now)]]

NoResult == [statusCode |-> 0]

\* no table.scan call made yet
NoResponse == [lek |-> FALSE, requests |-> 0, failed |-> FALSE, pages |-> <<>>]

PInit ==
    /\ table \in Tables
    /\ scanned = 0
    /\ response = NoResponse
    /\ accounts = <<>>
    /\ active_accounts = <<>>
    /\ ai = 1
    /\ account_region_pairs = <<>>
    /\ ri = 1
    /\ total_events = 0 /\ success_count = 0 /\ failure_count = 0
    /\ sns = <<>>
    /\ raisedAt = <<>>
    /\ ppc = "scan"
    /\ presult = NoResult

\* the outer except of lambda_handler
Abort(error) ==
    /\ ppc' = "done"
    /\ presult' = ErrorResult(error)

\* mutant: the scan stops after its first page
AfterPage_FirstPageOnly(lek) == "filter"

\* while 'LastEvaluatedKey' in response: scan again, else return items
AfterPage(lek) == IF lek THEN "scan" ELSE "filter"

\* table.scan(...) answers with the next page: the items after the
\* ExclusiveStartKey of the request (the first request has none and reads from
\* the start).  The response carries LastEvaluatedKey while items remain, and
\* possibly once more before a final empty page.
ScanPage ==
    /\ ppc = "scan"
    /\ \E n \in 0..(Len(table) - scanned), lek \in BOOLEAN :
          /\ n = 0 => scanned = Len(table)
          /\ scanned + n < Len(table) => lek
          /\ (lek /\ scanned + n = Len(table)) => n >= 1
          /\ accounts' = accounts \o SubSeq(table, scanned + 1, scanned + n)
          /\ scanned' = scanned + n
          /\ response' = [lek |-> lek, requests |-> response.requests + 1,
                          failed |-> FALSE,
                          pages |-> Append(response.pages,
                                           [start |-> scanned,
                                            items |-> SubSeq(table, scanned + 1, scanned + n),
                                            lek |-> lek])]
          /\ ppc' = AfterPage(lek)
    /\ UNCHANGED <<table, active_accounts, ai, account_region_pairs, ri, total_events,
                   success_count, failure_count, sns, raisedAt, presult>>

\* mutant: a failed page request ends the scan with the items read so far
OnScanError_ReturnsPartial ==
    /\ ppc' = "filter"
    /\ presult' = presult

\* the except clause of scan_account_metadata re-raises, into the outer
\* except of lambda_handler
OnScanError == Abort(ScanError)

\* table.scan(...) raises
ScanFail ==
    /\ ppc = "scan"
    /\ response' = [response EXCEPT !.requests = @ + 1, !.failed = TRUE]
    /\ OnScanError
    /\ UNCHANGED <<table, scanned, accounts, active_accounts, ai,
                   account_region_pairs, ri, total_events, success_count,
                   failure_count, sns, raisedAt>>

\* scan_account_metadata has returned `items`; its local `response` is gone
Filter ==
    /\ ppc = "filter"
    /\ ~FilterRaises(accounts)
    /\ active_accounts' = FilterActiveAccounts(accounts)
    /\ response' = NoResponse
    /\ ppc' = "accounts"
    /\ UNCHANGED <<table, scanned, accounts, ai, account_region_pairs, ri,
                   total_events, success_count, failure_count, sns, raisedAt, presult>>

FilterFail ==
    /\ ppc = "filter"
    /\ FilterRaises(accounts)
    /\ response' = NoResponse
    /\ Abort(StatusError)
    /\ UNCHANGED <<table, scanned, accounts, active_accounts, ai,
                   account_region_pairs, ri, total_events, success_count,
                   failure_count, sns, raisedAt>>

\* for account in active_accounts: account_region_pairs = expand_account_regions(account)
Expand ==
    /\ ppc = "accounts"
    /\ ai <= Len(active_accounts)
    /\ ~ExpandRaises(active_accounts[ai])
    /\ \E pairs \in ExpandAccountRegions(active_accounts[ai]) :
          /\ account_region_pairs' = pairs
          /\ ri' = 1
          /\ IF pairs = <<>>
             THEN ai' = ai + 1 /\ ppc' = "accounts"
             ELSE ai' = ai /\ ppc' = "pairs"
    /\ UNCHANGED <<table, scanned, response, accounts, active_accounts, total_events,
                   success_count, failure_count, sns, raisedAt, presult>>

ExpandFail ==
    /\ ppc = "accounts"
    /\ ai <= Len(active_accounts)
    /\ ExpandRaises(active_accounts[ai])
    /\ Abort(RegionsError)
    /\ UNCHANGED <<table, scanned, response, accounts, active_accounts, ai,
                   account_region_pairs, ri, total_events, success_count,
                   failure_count, sns, raisedAt>>

\* the inner loop moves to the next pair, or the outer loop to the next account
NextPair ==
    IF ri < Len(account_region_pairs)
    THEN ri' = ri + 1 /\ ai' = ai /\ ppc' = "pairs"
    ELSE ri' = 1 /\ ai' = ai + 1 /\ ppc' = "accounts"

\* mutant: a publish failure ends the run
OnPublishError_Aborts ==
    /\ failure_count' = failure_count + 1
    /\ total_events' = total_events + 1
    /\ success_count' = success_count
    /\ ri' = ri /\ ai' = ai
    /\ Abort("publish failed")

\* the inner except clause, after sns.publish raised
OnPublishError ==
    /\ failure_count' = failure_count + 1
    /\ total_events' = total_events + 1
    /\ success_count' = success_count
    /\ NextPair
    /\ presult' = presult

\* payload built, sns.publish answered
PublishOk ==
    /\ ppc = "pairs"
    /\ ~PayloadRaises(active_accounts[ai])
    /\ sns' = Append(sns, [acct |-> ai, pos |-> ri, region |-> account_region_pairs[ri], ok |-> TRUE,
                 payload |-> CreateEventPayload(active_accounts[ai],
                                                account_region_pairs[ri], now),
                 req |-> PublishRequest(CreateEventPayload(active_accounts[ai],
                                                           account_region_pairs[ri], now))])
    /\ success_count' = success_count + 1
    /\ total_events' = total_events + 1
    /\ NextPair
    /\ UNCHANGED <<table, scanned, response, accounts, active_accounts,
                   account_region_pairs, failure_count, raisedAt, presult>>

\* payload built, sns.publish raised
PublishFail ==
    /\ ppc = "pairs"
    /\ ~PayloadRaises(active_accounts[ai])
    /\ sns' = Append(sns, [acct |-> ai, pos |-> ri, region |-> account_region_pairs[ri], ok |-> FALSE,
                 payload |-> CreateEventPayload(active_accounts[ai],
                                                account_region_pairs[ri], now),
                 req |-> PublishRequest(CreateEventPayload(active_accounts[ai],
                                                           account_region_pairs[ri], now))])
    /\ OnPublishError
    /\ UNCHANGED <<table, scanned, response, accounts, active_accounts,
                   account_region_pairs, raisedAt>>

\* create_event_payload raises KeyError; the except clause counts the failure
\* and its print reads account_data['account_id'], which raises KeyError
\* again, out of the loops and into the outer except.
PayloadFail ==
    /\ ppc = "pairs"
    /\ PayloadRaises(active_accounts[ai])
    /\ failure_count' = failure_count + 1
    /\ total_events' = total_events + 1
    /\ raisedAt' = Append(raisedAt, [acct |-> ai, region |-> account_region_pairs[ri]])
    /\ Abort(AccountIdError)
    /\ UNCHANGED <<table, scanned, response, accounts, active_accounts, ai,
                   account_region_pairs, ri, success_count, sns>>

Finish ==
    /\ ppc = "accounts"
    /\ ai > Len(active_accounts)
    /\ presult' = Summary
    /\ ppc' = "done"
    /\ UNCHANGED <<table, scanned, response, accounts, active_accounts, ai,
                   account_region_pairs, ri, total_events, success_count,
                   failure_count, sns, raisedAt>>

(***************************************************************************)
(*                              CONSUMER                                   *)
(***************************************************************************)
S3_PREFIX == "network-data/"
SelfAccount == Str("999999999999")      \* sts.get_caller_identity()['Account']

TypeOrder == <<"vpcs", "subnets", "security_groups">>
ResourceTypes == {"vpcs", "subnets", "security_groups"}

\* ---- what EC2 holds: the describe_* responses ----
VpcA == [VpcId |-> Str("vpc-a"), CidrBlock |-> Str("10.0.0.0/16"),
         State |-> Str("available"), IsDefault |-> Bool(TRUE),
         Tags |-> List(<<"Name=main">>)]
VpcB == [VpcId |-> Str("vpc-b"), CidrBlock |-> Str("10.1.0.0/16"),
         State |-> Str("available")]
SubnetA == [SubnetId |-> Str("subnet-a"), VpcId |-> Str("vpc-a"),
            CidrBlock |-> Str("10.0.0.0/24"), AvailabilityZone |-> Str("us-west-2a"),
            AvailableIpAddressCount |-> PyInt(251)]
SgA == [GroupId |-> Str("sg-a"), GroupName |-> Str("web"), VpcId |-> Str("vpc-a"),
        Description |-> Str("web tier"),
        IpPermissions |-> List(<<"tcp/443", "tcp/80">>),
        IpPermissionsEgress |-> List(<<"all">>)]
SgNoVpc == [GroupId |-> Str("sg-classic"), GroupName |-> Str("default"),
            Description |-> Str("classic group")]

VpcResponses == {<<>>, <<VpcA, VpcB>>}
SubnetResponses == {<<>>, <<SubnetA>>}
SgResponses == {<<>>, <<SgNoVpc>>, <<SgA, SgNoVpc>>}
Worlds == [vpcs : VpcResponses, subnets : SubnetResponses, security_groups : SgResponses]
\* the inventory of the end-to-end scenario: 2 VPCs, 0 subnets, 1 security group
ScenarioWorld == [vpcs |-> <<VpcA, VpcB>>, subnets |-> <<>>, security_groups |-> <<SgNoVpc>>]

\* ---- delivered records ----
WorkSelf == [account_id |-> SelfAccount, account_name |-> Str("collector"),
             business_unit |-> Str("platform"), region |-> Str("us-west-2"),
             timestamp |-> Str("2024-01-01T00:00:00Z")]
WorkCross == [account_id |-> Str("111111111111"), account_name |-> Str("prod"),
              business_unit |-> None, region |-> Str("us-west-2"),
              timestamp |-> Str("2024-01-01T00:00:00Z")]
\* an item from a publisher that leaves business_unit out
WorkNoUnit == [account_id |-> Str("111111111111"), account_name |-> Str("prod"),
               region |-> Str("eu-west-1")]
WorkNoName == [account_id |-> Str("111111111111"), region |-> Str("us-west-2")]
WorkNoRegion == [account_id |-> Str("111111111111"), account_name |-> Str("prod")]

\* what SNS hands to SQS for a published Message: the notification
\* envelope, serialized, the Message a string member of it
Notification(message) ==
    JsonDumps([Type |-> Str("Notification"), Message |-> message])
Envelope(payload) == Notification(JsonDumps(payload))
SqsRecord(body) == [body |-> body]

RecGarbage == SqsRecord(Str("not json"))
RecRaw == SqsRecord(JsonDumps(WorkCross))     \* no envelope: no 'Message' member
RecInnerGarbage ==
    SqsRecord(JsonDumps([Type |-> Str("Notification"), Message |-> Str("hello")]))

GoodRecords == {SqsRecord(Envelope(WorkSelf)), SqsRecord(Envelope(WorkCross)),
                SqsRecord(Envelope(WorkNoUnit))}
BadRecords == {RecGarbage, RecRaw, RecInnerGarbage,
               SqsRecord(Envelope(WorkNoName)), SqsRecord(Envelope(WorkNoRegion))}
BatchRecords == {SqsRecord(Envelope(WorkSelf)), SqsRecord(Envelope(WorkCross)),
                 RecGarbage, SqsRecord(Envelope(WorkNoName))}

\* a batch of one record of any kind against any inventory, or a longer batch
\* against the scenario inventory
Inputs ==
    {<<b, w>> : b \in [1..1 -> GoodRecords \cup BadRecords], w \in Worlds}
    \cup {<<b, ScenarioWorld>> : b \in UNION {[1..n -> BatchRecords] : n \in 2..MaxBatch}}

\* lines 26-29 and 58-61: what raises before the first network call
DecodeRaises(record) ==
    IF JsonLoadsRaises(record.body) THEN TRUE
    ELSE IF ~Has(JsonLoads(record.body), "Message") THEN TRUE
    ELSE IF JsonLoadsRaises(JsonLoads(record.body)["Message"]) THEN TRUE
    ELSE LET sns_message == JsonLoads(JsonLoads(record.body)["Message"])
         IN  ~(/\ Has(sns_message, "account_id")
               /\ Has(sns_message, "region")
               /\ Has(sns_message, "account_name"))
Decode(record) == JsonLoads(JsonLoads(record.body)["Message"])

\* ---- collectors: the record each builds from one described resource ----
NormalizeVpc(vpc) ==
    [vpc_id |-> vpc["VpcId"], cidr_block |-> vpc["CidrBlock"], state |-> vpc["State"],
     is_default |-> Get(vpc, "IsDefault", Bool(FALSE)),
     tags |-> Get(vpc, "Tags", List(<<>>))]
NormalizeSubnet(subnet) ==
    [subnet_id |-> subnet["SubnetId"], vpc_id |-> subnet["VpcId"],
     cidr_block |-> subnet["CidrBlock"],
     availability_zone |-> subnet["AvailabilityZone"],
     available_ip_count |-> subnet["AvailableIpAddressCount"],
     tags |-> Get(subnet, "Tags", List(<<>>))]
\* mutant: a group without VpcId gets no vpc_id field
NormalizeSg_OmitsVpcId(sg) ==
    IF Has(sg, "VpcId")
    THEN [sg_id |-> sg["GroupId"], sg_name |-> sg["GroupName"],
          vpc_id |-> sg["VpcId"],
          description |-> sg["Description"],
          ingress_rules_count |-> PyInt(Len(Get(sg, "IpPermissions", List(<<>>)).v)),
          egress_rules_count |-> PyInt(Len(Get(sg, "IpPermissionsEgress", List(<<>>)).v)),
          tags |-> Get(sg, "Tags", List(<<>>))]
    ELSE [sg_id |-> sg["GroupId"], sg_name |-> sg["GroupName"],
          description |-> sg["Description"],
          ingress_rules_count |-> PyInt(Len(Get(sg, "IpPermissions", List(<<>>)).v)),
          egress_rules_count |-> PyInt(Len(Get(sg, "IpPermissionsEgress", List(<<>>)).v)),
          tags |-> Get(sg, "Tags", List(<<>>))]

NormalizeSg(sg) ==
    [sg_id |-> sg["GroupId"], sg_name |-> sg["GroupName"],
     vpc_id |-> Get(sg, "VpcId", Str("N/A")),
     description |-> sg["Description"],
     ingress_rules_count |-> PyInt(Len(Get(sg, "IpPermissions", List(<<>>)).v)),
     egress_rules_count |-> PyInt(Len(Get(sg, "IpPermissionsEgress", List(<<>>)).v)),
     tags |-> Get(sg, "Tags", List(<<>>))]
Normalize(ty, r) ==
    CASE ty = "vpcs" -> NormalizeVpc(r)
      [] ty = "subnets" -> NormalizeSubnet(r)
      [] ty = "security_groups" -> NormalizeSg(r)
\* collect_vpcs / collect_subnets / collect_security_groups, the query answered
Collect(ty, resp) == [i \in 1..Len(resp) |-> Normalize(ty, resp[i])]
\* the same, the query raised
CollectOnError == <<>>

\* ---- store_to_s3 / store_flat_file ----
\* {**a, **b}: a key of both carries b's value
Merge(a, b) == [k \in DOMAIN a \cup DOMAIN b |-> IF k \in DOMAIN b THEN b[k] ELSE a[k]]
BaseMetadata(nd) ==
    [account_id |-> nd.account_id, account_name |-> nd.account_name,
     business_unit |-> nd.business_unit, region |-> nd.region,
     collection_timestamp |-> nd.collection_timestamp]
Records(nd, ty) ==
    [i \in 1..Len(nd.network[ty]) |-> Merge(BaseMetadata(nd), nd.network[ty][i])]
\* mutant: the key does not carry the timestamp
S3Key_NoTimestamp(resource_type, account_id, region, timestamp) ==
    S3_PREFIX \o resource_type \o "/account=" \o Format(account_id)
        \o "/region=" \o Format(region) \o "/data.json"

S3Key(resource_type, account_id, region, timestamp) ==
    S3_PREFIX \o resource_type \o "/account=" \o Format(account_id)
        \o "/region=" \o Format(region) \o "/data-" \o timestamp \o ".json"
Newline == Str("\n")
\* '\n'.join(parts)
RECURSIVE Join(_)
Join(parts) ==
    IF Len(parts) <= 1 THEN parts
    ELSE <<Head(parts), Newline>> \o Join(Tail(parts))
Jsonl(records) == Join([i \in 1..Len(records) |-> JsonDumps(records[i])])

\* mutant: every group is written, empty or not
NextGroup_WritesEmpty(nd, k) == IF k > Len(TypeOrder) THEN 0 ELSE k

\* if network_data['network'][ty]: the groups store_to_s3 writes, in order
RECURSIVE NextGroup(_, _)
NextGroup(nd, k) ==
    IF k > Len(TypeOrder) THEN 0
    ELSE IF nd.network[TypeOrder[k]] # <<>> THEN k
    ELSE NextGroup(nd, k + 1)

DescribePc(ty) == "describe_" \o ty
PutPc(ty) == "put_" \o ty
AfterGroup(nd, k) ==
    IF NextGroup(nd, k) = 0 THEN "success" ELSE PutPc(TypeOrder[NextGroup(nd, k)])
TypeIndex(ty) == CHOOSE k \in 1..Len(TypeOrder) : TypeOrder[k] = ty

Idle ==
    [account_id |-> None, account_name |-> None, business_unit |-> None,
     region |-> None, collection_timestamp |-> None,
     network |-> [vpcs |-> <<>>, subnets |-> <<>>, security_groups |-> <<>>],
     timestamp |-> "",        \* store_to_s3's timestamp
     timestamp_at |-> 0,      \* the clock second it was read at
     client |-> "none",       \* which client get_ec2_client returned
     client_region |-> None,  \* the region_name that client was made for
     identity_calls |-> 0,    \* sts.get_caller_identity requests
     assume_calls |-> 0,      \* sts.assume_role requests
     assume_failed |-> FALSE,
     queries |-> <<>>,        \* describe_* requests, in order
     query_failed |-> {},     \* the resource types whose query raised
     puts |-> <<>>]           \* s3.put_object requests: [ty, key, body, ok]

\* mutant: a batch with a failed message is answered with an error status
CResult_ErrorOnFailure ==
    [statusCode |-> IF failed_count > 0 THEN 500 ELSE 200,
     body |-> JsonDumps([processed |-> PyInt(processed_count),
                         failed |-> PyInt(failed_count)])]

\* the body is the JSON text of the two counts
CResult ==
    [statusCode |-> 200,
     body |-> JsonDumps([processed |-> PyInt(processed_count),
                         failed |-> PyInt(failed_count)])]

CInit ==
    /\ \E inp \in Inputs : batch = inp[1] /\ ec2 = inp[2]
    /\ idx = 1
    /\ cpc = "begin"
    /\ processed_count = 0 /\ failed_count = 0
    /\ now = 0
    /\ cur = Idle
    /\ s3store = <<>>
    /\ attempts = [i \in 1..Len(batch) |-> 0]
    /\ raises = 0
    /\ cresult = NoResult

\* the record the loop is at
Record == batch[idx]

\* lines 23-29, 58-61: the try block is entered, the message decodes
StartMessage ==
    /\ cpc = "begin"
    /\ idx <= Len(batch)
    /\ ~DecodeRaises(Record)
    /\ attempts' = [attempts EXCEPT ![idx] = @ + 1]
    /\ cur' = [Idle EXCEPT !.account_id = Decode(Record)["account_id"],
                           !.region = Decode(Record)["region"],
                           !.account_name = Decode(Record)["account_name"],
                           !.business_unit = Get(Decode(Record), "business_unit", None)]
    /\ cpc' = "identity"
    /\ UNCHANGED <<batch, idx, processed_count, failed_count, now, s3store, raises,
                   cresult, ec2>>

\* the try block is entered, decoding or a required key raises
DecodeFail ==
    /\ cpc = "begin"
    /\ idx <= Len(batch)
    /\ DecodeRaises(Record)
    /\ attempts' = [attempts EXCEPT ![idx] = @ + 1]
    /\ raises' = raises + 1
    /\ cpc' = "except"
    /\ UNCHANGED <<batch, idx, processed_count, failed_count, now, cur, s3store,
                   cresult, ec2>>

\* collection_timestamp is read as soon as get_ec2_client has returned
WithClient(c, kind) ==
    [c EXCEPT !.client = kind,
              !.client_region = c.region,
              !.collection_timestamp = Str(IsoFormat(now) \o "Z")]

\* mutant: every account is reached through assume-role
IsSelf_Never(account_id) == FALSE

\* if account_id == current_account
IsSelf(account_id) == account_id = SelfAccount

\* get_ec2_client: sts.get_caller_identity() answers
GetCallerIdentity ==
    /\ cpc = "identity"
    /\ LET c == [cur EXCEPT !.identity_calls = @ + 1]
       IN  IF IsSelf(cur.account_id)
           THEN cur' = WithClient(c, "self") /\ cpc' = DescribePc(TypeOrder[1])
           ELSE cur' = c /\ cpc' = "assume"
    /\ UNCHANGED <<batch, idx, processed_count, failed_count, now, s3store, attempts,
                   raises, cresult, ec2>>

GetCallerIdentityFail ==
    /\ cpc = "identity"
    /\ cur' = [cur EXCEPT !.identity_calls = @ + 1]
    /\ raises' = raises + 1
    /\ cpc' = "except"
    /\ UNCHANGED <<batch, idx, processed_count, failed_count, now, s3store, attempts,
                   cresult, ec2>>

\* get_ec2_client: sts.assume_role(...) answers
AssumeRole ==
    /\ cpc = "assume"
    /\ cur' = WithClient([cur EXCEPT !.assume_calls = @ + 1], "assumed")
    /\ cpc' = DescribePc(TypeOrder[1])
    /\ UNCHANGED <<batch, idx, processed_count, failed_count, now, s3store, attempts,
                   raises, cresult, ec2>>

\* mutant: a rejected assume-role falls back to the collector's own client
AssumeRoleFail_FallsBack ==
    /\ cpc = "assume"
    /\ cur' = WithClient([cur EXCEPT !.assume_calls = @ + 1, !.assume_failed = TRUE],
                         "self")
    /\ cpc' = DescribePc(TypeOrder[1])
    /\ UNCHANGED <<batch, idx, processed_count, failed_count, now, s3store, attempts,
                   raises, cresult, ec2>>

\* get_ec2_client: sts.assume_role(...) raises; logged and re-raised
AssumeRoleFail ==
    /\ cpc = "assume"
    /\ cur' = [cur EXCEPT !.assume_calls = @ + 1, !.assume_failed = TRUE]
    /\ raises' = raises + 1
    /\ cpc' = "except"
    /\ UNCHANGED <<batch, idx, processed_count, failed_count, now, s3store, attempts,
                   cresult, ec2>>

\* collector ty has returned `records`: the next collector runs, or, after the
\* last one, store_to_s3 reads its timestamp and reaches its first put
AfterCollect(c, ty) ==
    IF TypeIndex(ty) < Len(TypeOrder)
    THEN /\ cur' = c
         /\ cpc' = DescribePc(TypeOrder[TypeIndex(ty) + 1])
    ELSE /\ cur' = [c EXCEPT !.timestamp = StrFTime(now), !.timestamp_at = now]
         /\ cpc' = AfterGroup(c, 1)

\* collect_*: the describe call answers
Describe(ty) ==
    /\ cpc = DescribePc(ty)
    /\ AfterCollect([cur EXCEPT !.network[ty] = Collect(ty, ec2[ty]),
                                !.queries = Append(@, ty)], ty)
    /\ UNCHANGED <<batch, idx, processed_count, failed_count, now, s3store, attempts,
                   raises, cresult, ec2>>

\* mutant: the collector lets the query's exception through
DescribeFail_Raises(ty) ==
    /\ cpc = DescribePc(ty)
    /\ cur' = [cur EXCEPT !.queries = Append(@, ty), !.query_failed = @ \cup {ty}]
    /\ raises' = raises + 1
    /\ cpc' = "except"
    /\ UNCHANGED <<batch, idx, processed_count, failed_count, now, s3store, attempts,
                   cresult, ec2>>

\* collect_*: the describe call raises; the collector logs and returns []
DescribeFail(ty) ==
    /\ cpc = DescribePc(ty)
    /\ AfterCollect([cur EXCEPT !.network[ty] = CollectOnError,
                                !.queries = Append(@, ty),
                                !.query_failed = @ \cup {ty}], ty)
    /\ UNCHANGED <<batch, idx, processed_count, failed_count, now, s3store, attempts,
                   raises, cresult, ec2>>

\* mutant: every put reads the clock for its own timestamp
PutRequest_OwnTimestamp(ty) ==
    [ty |-> ty,
     key |-> S3Key(ty, cur.account_id, cur.region, StrFTime(now)),
     body |-> Jsonl(Records(cur, ty))]

\* the put_object request store_flat_file makes for group ty
PutRequest(ty) ==
    [ty |-> ty,
     key |-> S3Key(ty, cur.account_id, cur.region, cur.timestamp),
     body |-> Jsonl(Records(cur, ty))]

\* the bucket after put(key, body)
Put(store, key, body) ==
    [k \in DOMAIN store \cup {key} |-> IF k = key THEN body ELSE store[k]]

\* store_flat_file: s3.put_object answers
PutObject(ty) ==
    /\ cpc = PutPc(ty)
    /\ s3store' = Put(s3store, PutRequest(ty).key, PutRequest(ty).body)
    /\ cur' = [cur EXCEPT !.puts = Append(@, [ty |-> ty, key |-> PutRequest(ty).key,
                                              body |-> PutRequest(ty).body, ok |-> TRUE])]
    /\ cpc' = AfterGroup(cur, TypeIndex(ty) + 1)
    /\ UNCHANGED <<batch, idx, processed_count, failed_count, now, attempts, raises,
                   cresult, ec2>>

\* mutant: a failed put deletes what the item had already written
AfterFailedPut_RollsBack ==
    [k \in DOMAIN s3store \ {cur.puts[i].key : i \in 1..Len(cur.puts)} |-> s3store[k]]

\* what a put that raised leaves in the bucket
AfterFailedPut == s3store

\* store_flat_file: s3.put_object raises; logged and re-raised
PutObjectFail(ty) ==
    /\ cpc = PutPc(ty)
    /\ s3store' = AfterFailedPut
    /\ cur' = [cur EXCEPT !.puts = Append(@, [ty |-> ty, key |-> PutRequest(ty).key,
                                              body |-> PutRequest(ty).body, ok |-> FALSE])]
    /\ raises' = raises + 1
    /\ cpc' = "except"
    /\ UNCHANGED <<batch, idx, processed_count, failed_count, now, attempts, cresult, ec2>>

\* lines 37-38, then the loop moves on
Success ==
    /\ cpc = "success"
    /\ processed_count' = processed_count + 1
    /\ idx' = idx + 1
    /\ cur' = Idle
    /\ cpc' = "begin"
    /\ UNCHANGED <<batch, failed_count, now, s3store, attempts, raises, cresult, ec2>>

\* mutant: the except clause gives up on the rest of the batch
Except_AbortsBatch ==
    /\ cpc = "except"
    /\ failed_count' = failed_count + 1
    /\ idx' = Len(batch) + 1
    /\ cur' = Idle
    /\ cpc' = "begin"
    /\ UNCHANGED <<batch, processed_count, now, s3store, attempts, raises, cresult, ec2>>

\* lines 40-44, then the loop moves on
Except ==
    /\ cpc = "except"
    /\ failed_count' = failed_count + 1
    /\ idx' = idx + 1
    /\ cur' = Idle
    /\ cpc' = "begin"
    /\ UNCHANGED <<batch, processed_count, now, s3store, attempts, raises, cresult, ec2>>

\* lines 46-52
Return ==
    /\ cpc = "begin"
    /\ idx > Len(batch)
    /\ cresult' = CResult
    /\ cpc' = "done"
    /\ UNCHANGED <<batch, idx, processed_count, failed_count, now, cur, s3store,
                   attempts, raises, ec2>>

\* a second passes
Tick ==
    /\ now < MaxClock
    /\ now' = now + 1

CTick ==
    /\ cpc # "done"
    /\ Tick
    /\ UNCHANGED <<batch, idx, cpc, processed_count, failed_count, cur, s3store,
                   attempts, raises, cresult, ec2>>
    /\ UNCHANGED pvars

(***************************************************************************)
(* Specifications.  Each stage runs against the other stage at rest.  A   *)
(* dispatch run reads the clock for the timestamp of each payload and of    *)
(* the summary, and is taken within one clock second; the consumer's clock *)
(* advances freely.                                                        *)
(***************************************************************************)
CIdle ==
    /\ batch = <<>> /\ ec2 = ScenarioWorld /\ idx = 1 /\ cpc = "done"
    /\ processed_count = 0 /\ failed_count = 0 /\ now = 0 /\ cur = Idle
    /\ s3store = <<>> /\ attempts = <<>> /\ raises = 0 /\ cresult = NoResult
PIdle ==
    /\ table = <<>> /\ scanned = 0 /\ response = NoResponse /\ accounts = <<>>
    /\ active_accounts = <<>> /\ ai = 1 /\ account_region_pairs = <<>> /\ ri = 1
    /\ total_events = 0 /\ success_count = 0 /\ failure_count = 0 /\ sns = <<>>
    /\ raisedAt = <<>> /\ ppc = "done" /\ presult = NoResult

ProducerInit == PInit /\ CIdle
ProducerNext ==
    \/ (ScanPage /\ UNCHANGED cvars)
    \/ (ScanFail /\ UNCHANGED cvars)
    \/ (Filter /\ UNCHANGED cvars)
    \/ (FilterFail /\ UNCHANGED cvars)
    \/ (Expand /\ UNCHANGED cvars)
    \/ (ExpandFail /\ UNCHANGED cvars)
    \/ (PublishOk /\ UNCHANGED cvars)
    \/ (PublishFail /\ UNCHANGED cvars)
    \/ (PayloadFail /\ UNCHANGED cvars)
    \/ (Finish /\ UNCHANGED cvars)
SpecProducer == ProducerInit /\ [][ProducerNext]_vars

ConsumerInit == CInit /\ PIdle
ConsumerNext ==
    \/ (StartMessage /\ UNCHANGED pvars)
    \/ (DecodeFail /\ UNCHANGED pvars)
    \/ (GetCallerIdentity /\ UNCHANGED pvars)
    \/ (GetCallerIdentityFail /\ UNCHANGED pvars)
    \/ (AssumeRole /\ UNCHANGED pvars)
    \/ (AssumeRoleFail /\ UNCHANGED pvars)
    \/ (\E ty \in ResourceTypes : Describe(ty) /\ UNCHANGED pvars)
    \/ (\E ty \in ResourceTypes : DescribeFail(ty) /\ UNCHANGED pvars)
    \/ (\E ty \in ResourceTypes : PutObject(ty) /\ UNCHANGED pvars)
    \/ (\E ty \in ResourceTypes : PutObjectFail(ty) /\ UNCHANGED pvars)
    \/ (Success /\ UNCHANGED pvars)
    \/ (Except /\ UNCHANGED pvars)
    \/ (Return /\ UNCHANGED pvars)
    \/ CTick
SpecConsumer == ConsumerInit /\ [][ConsumerNext]_vars

(***************************************************************************)
(*                         PROPERTIES: CONSUMER                            *)
(***************************************************************************)
PutPcs == {PutPc(ty) : ty \in ResourceTypes}
\* the counts an invoker parsing the returned body reads
ReturnedCounts == JsonLoads(cresult.body)
PutsOf(ty) == {i \in 1..Len(cur.puts) : cur.puts[i].ty = ty}
\* the lines a reader splitting a body at its newlines gets
NumLines(body) == Cardinality({i \in 1..Len(body) : body[i] = Newline}) + 1

\* C1: in a batch of K records of which J raise (in decoding, the identity
\* or assume-role request, or a put), every record's try block is entered
\* exactly once, never more than once on the way, and the handler returns
\* processed = K - J and failed = J.
C1_BatchCounts ==
    /\ \A i \in 1..Len(batch) : attempts[i] = (IF i < idx \/ (i = idx /\ cpc # "begin") THEN 1 ELSE 0)
    /\ cpc = "done" =>
          /\ \A i \in 1..Len(batch) : attempts[i] = 1
          /\ cresult.statusCode = 200
          /\ ReturnedCounts["processed"] = PyInt(Len(batch) - raises)
          /\ ReturnedCounts["failed"] = PyInt(raises)
          /\ ReturnedCounts["processed"].v + ReturnedCounts["failed"].v = Len(batch)
C1_Witness ==
    /\ cpc = "done" /\ Len(batch) >= 2
    /\ raises >= 1 /\ raises < Len(batch)
    /\ ReturnedCounts["failed"] = PyInt(raises)

\* C3 (as claimed): no put ever targets a key that is already in the bucket,
\* that is, that another processing attempt has written.
C3_NoOverwrite ==
    \A ty \in ResourceTypes : cpc = PutPc(ty) => PutRequest(ty).key \notin DOMAIN s3store

\* C7: when the query of a collector raises, that collector yields no
\* records, all three collectors are still invoked, the records of the other
\* two are written, and unless a put raises the message reaches the success
\* path and is counted as processed, not failed.
C7_CollectorIsolation ==
    [][cur.query_failed # {} =>
          /\ \A ty \in cur.query_failed : cur.network[ty] = <<>>
          /\ \/ \E k \in 2..Len(TypeOrder) :
                   cpc = DescribePc(TypeOrder[k]) /\ cur.queries = SubSeq(TypeOrder, 1, k - 1)
             \/ /\ cpc \in PutPcs \cup {"success", "except"}
                /\ cur.queries = TypeOrder
                /\ \A ty \in ResourceTypes \ cur.query_failed :
                      cur.network[ty] = Collect(ty, ec2[ty])
          /\ cpc = "except" => (cur.puts # <<>> /\ ~cur.puts[Len(cur.puts)].ok)
          /\ cpc = "success" =>
                /\ \A ty \in ResourceTypes :
                      cur.network[ty] # <<>> =>
                        \E i \in PutsOf(ty) :
                            /\ cur.puts[i].ok
                            /\ cur.puts[i].key \in DOMAIN s3store
                            /\ s3store[cur.puts[i].key] = Jsonl(Records(cur, ty))
                /\ cpc' # cpc =>
                      /\ processed_count' = processed_count + 1
                      /\ failed_count' = failed_count
                      /\ raises' = raises
      ]_vars
C7_Witness ==
    /\ cpc = "success"
    /\ cur.query_failed = {"subnets"}
    /\ Len(cur.network["vpcs"]) = 2 /\ Len(cur.network["security_groups"]) >= 1
    /\ Len(cur.puts) = 2
    /\ ec2["subnets"] # <<>>

\* C8: when a put raises, the message goes to the except clause and is
\* counted as failed and not as processed; nothing is ever removed from the
\* bucket, so the groups the item had already written stay as written.
C8_WriteFailureNoRollback ==
    [][/\ \A k \in DOMAIN s3store : k \in DOMAIN s3store'
       /\ (cpc \in PutPcs /\ cpc' = "except") =>
             /\ s3store' = s3store
             /\ raises' = raises + 1
             /\ \A i \in 1..Len(cur.puts) :
                   /\ cur.puts[i].ok
                   /\ cur.puts[i].key \in DOMAIN s3store'
                   /\ s3store'[cur.puts[i].key] = cur.puts[i].body
       /\ (cpc = "except" /\ cpc' # cpc) =>
             /\ failed_count' = failed_count + 1
             /\ processed_count' = processed_count
             /\ s3store' = s3store
      ]_vars
C8_Witness ==
    /\ cpc = "except"
    /\ Len(cur.puts) >= 2
    /\ cur.puts[1].ok /\ ~cur.puts[Len(cur.puts)].ok
    /\ cur.puts[1].key \in DOMAIN s3store
    /\ s3store[cur.puts[1].key] = cur.puts[1].body

\* C9: when the assume-role request of a message is rejected, that was the
\* only assume-role request made for the message, no describe call and no
\* put is made for it, the message is counted as failed and not as
\* processed, and the loop moves on to the next record.
C9_DelegationFailure ==
    [][cur.assume_failed =>
          /\ cur.assume_calls = 1
          /\ cur.client = "none"
          /\ cur.queries = <<>>
          /\ cur.puts = <<>>
          /\ cpc = "except"
          /\ cpc' # cpc =>
                /\ failed_count' = failed_count + 1
                /\ processed_count' = processed_count
                /\ s3store' = s3store
                /\ idx' = idx + 1 /\ cpc' = "begin"
      ]_vars
C9_Witness ==
    /\ cur.assume_failed /\ cpc = "except"
    /\ cur.account_id # SelfAccount
    /\ idx < Len(batch)

\* C10: a put is made only for a resource type with at least one collected
\* record, its body has one line per record of that type, and a processed
\* item has made exactly one put per non-empty type and none for an empty
\* one.
C10_NoEmptyWrites ==
    /\ \A i \in 1..Len(cur.puts) :
          /\ cur.network[cur.puts[i].ty] # <<>>
          /\ NumLines(cur.puts[i].body) = Len(cur.network[cur.puts[i].ty])
    /\ cpc = "success" =>
          \A ty \in ResourceTypes :
              Cardinality(PutsOf(ty)) = (IF cur.network[ty] # <<>> THEN 1 ELSE 0)
C10_Witness ==
    /\ cpc = "success"
    /\ Len(cur.network["vpcs"]) = 2
    /\ cur.network["subnets"] = <<>>
    /\ Len(cur.network["security_groups"]) = 1
    /\ Len(cur.puts) = 2
    /\ cur.puts[1].ty = "vpcs" /\ NumLines(cur.puts[1].body) = 2
    /\ cur.puts[2].ty = "security_groups" /\ NumLines(cur.puts[2].body) = 1

\* C12: a client of the collector's own identity is returned exactly when
\* the item's account_id equals the identity sts reports, after one identity
\* request and no assume-role request, and it is made for the item's region;
\* an assume-role request is made only for an item of another account.
C12_SelfNeverDelegates ==
    /\ cur.client = "self" =>
          /\ cur.account_id = SelfAccount
          /\ cur.identity_calls = 1 /\ cur.assume_calls = 0
          /\ cur.client_region = cur.region
    /\ (cpc = "assume" \/ cur.assume_calls > 0) => cur.account_id # SelfAccount
    /\ cur.client = "assumed" =>
          /\ cur.account_id # SelfAccount
          /\ cur.assume_calls = 1
          /\ cur.client_region = cur.region
    /\ (cur.account_id = SelfAccount /\ cur.identity_calls = 1 /\ cpc # "except") =>
          (cur.client = "self" /\ cur.assume_calls = 0)
C12_Witness ==
    /\ cpc = "success"
    /\ cur.account_id = SelfAccount /\ cur.client = "self"
    /\ cur.client_region = Str("us-west-2")
    /\ cur.assume_calls = 0
    /\ cur.puts # <<>>

\* the key of the group of the put at hand, had its timestamp been read at
\* second t
KeyAt(ty, t) == S3Key(ty, cur.account_id, cur.region, StrFTime(t))

\* C14: the key of a put is <prefix><resourceType>/account=<accountId>/
\* region=<region>/data-<timestamp>.json; timestamps read at different
\* seconds differ, and a write for the same resource type, account and
\* region with a different timestamp has a different key, so that the put
\* leaves the object of that other write as it is.
C14_KeyDistinctByTimestamp ==
    [][\A ty \in ResourceTypes :
          cpc = PutPc(ty) =>
             /\ PutRequest(ty).key = KeyAt(ty, cur.timestamp_at)
             /\ PutRequest(ty).key =
                   "network-data/" \o ty \o "/account=" \o cur.account_id.v
                       \o "/region=" \o cur.region.v
                       \o "/data-" \o cur.timestamp \o ".json"
             /\ \A t \in 0..MaxClock :
                   /\ t # cur.timestamp_at => StrFTime(t) # cur.timestamp
                   /\ StrFTime(t) # cur.timestamp =>
                         /\ KeyAt(ty, t) # PutRequest(ty).key
                         /\ (cpc' # cpc /\ KeyAt(ty, t) \in DOMAIN s3store) =>
                               /\ KeyAt(ty, t) \in DOMAIN s3store'
                               /\ s3store'[KeyAt(ty, t)] = s3store[KeyAt(ty, t)]
      ]_vars
C14_Witness ==
    /\ cpc = "success" /\ idx = 2
    /\ cur.timestamp = "20240101-000001"
    /\ cur.puts # <<>>
    /\ cur.puts[1].key =
          "network-data/vpcs/account=999999999999/region=us-west-2/data-20240101-000001.json"
    /\ cur.puts[1].ok
    /\ {"network-data/vpcs/account=999999999999/region=us-west-2/data-20240101-000000.json",
        "network-data/vpcs/account=999999999999/region=us-west-2/data-20240101-000001.json"}
          \subseteq DOMAIN s3store

EnvelopeFields ==
    {"account_id", "account_name", "business_unit", "region", "collection_timestamp"}
\* the records of a JSONL body, as a reader parsing each line gets them
LinesOf(body) == SelectSeq(body, LAMBDA part : part # Newline)
\* the business_unit the message in flight carries, None when it has none
CarriedUnit == Get(Decode(Record), "business_unit", None)

\* C15: every record of every put request, and of every object in the
\* bucket, has the five envelope fields, business_unit being null when the
\* work item carries none; every security-group record has vpc_id, which is
\* the group's VpcId when it has one and the string N/A when it has none.
C15_FixedSchema ==
    /\ \A key \in DOMAIN s3store :
          \A j \in 1..Len(LinesOf(s3store[key])) :
              LET line == JsonLoads(LinesOf(s3store[key])[j])
              IN  /\ EnvelopeFields \subseteq DOMAIN line
                  /\ Has(line, "sg_id") => (Has(line, "vpc_id") /\ line["vpc_id"].t = "str")
    /\ \A i \in 1..Len(cur.puts) :
          /\ Len(LinesOf(cur.puts[i].body)) >= 1
          /\ \A j \in 1..Len(LinesOf(cur.puts[i].body)) :
                LET line == JsonLoads(LinesOf(cur.puts[i].body)[j])
                IN  /\ EnvelopeFields \subseteq DOMAIN line
                    /\ line["account_id"] = cur.account_id
                    /\ line["account_name"] = cur.account_name
                    /\ line["region"] = cur.region
                    /\ line["collection_timestamp"] = cur.collection_timestamp
                    /\ line["business_unit"] = CarriedUnit
                    /\ cur.puts[i].ty = "security_groups" =>
                          /\ Has(line, "vpc_id")
                          /\ line["vpc_id"] =
                                (IF Has(ec2["security_groups"][j], "VpcId")
                                 THEN ec2["security_groups"][j]["VpcId"]
                                 ELSE Str("N/A"))
C15_Witness ==
    /\ cpc = "success"
    /\ ~Has(Decode(Record), "business_unit")
    /\ \E i \in 1..Len(cur.puts) :
          /\ cur.puts[i].ty = "security_groups" /\ cur.puts[i].ok
          /\ Len(LinesOf(cur.puts[i].body)) = 2
          /\ JsonLoads(LinesOf(cur.puts[i].body)[1])["vpc_id"] = Str("vpc-a")
          /\ JsonLoads(LinesOf(cur.puts[i].body)[2])["vpc_id"] = Str("N/A")
          /\ JsonLoads(LinesOf(cur.puts[i].body)[2])["business_unit"] = None
          /\ s3store[cur.puts[i].key] = cur.puts[i].body

\* C19: the handler's result always has status 200 and nothing but the two
\* counts, also when every message of the batch failed; a message that
\* raised leaves the loop at the next record with no result set, and no
\* record's try block is entered a second time.
C19_FailuresNotSignalled ==
    /\ [](/\ \A i \in 1..Len(batch) : attempts[i] <= 1
          /\ cpc # "done" => cresult = NoResult
          /\ cpc = "done" =>
                /\ DOMAIN cresult = {"statusCode", "body"}
                /\ cresult.statusCode = 200
                /\ ~JsonLoadsRaises(cresult.body)
                /\ DOMAIN ReturnedCounts = {"processed", "failed"}
                /\ ReturnedCounts["failed"] = PyInt(raises))
    /\ [][(cpc = "except" /\ cpc' # cpc) =>
             /\ cpc' = "begin" /\ idx' = idx + 1
             /\ attempts' = attempts
             /\ cresult' = cresult
      ]_vars
C19_Witness ==
    /\ cpc = "done"
    /\ Len(batch) = 2
    /\ ReturnedCounts["failed"] = PyInt(2) /\ ReturnedCounts["processed"] = PyInt(0)
    /\ cresult.statusCode = 200

\* C20: for the message in flight, no describe call is made before
\* get_ec2_client has returned a client; the describe calls are made in the
\* order vpcs, subnets, security_groups and all three have been made before
\* the first put; the puts follow the same order, all carry the one timestamp
\* store_to_s3 read, whatever the clock shows by then; and a put that raised
\* is the last put of the message.
C20_OrderWithinItem ==
    /\ \E k \in 0..Len(TypeOrder) : cur.queries = SubSeq(TypeOrder, 1, k)
    /\ (cur.queries # <<>> \/ cpc \in {DescribePc(ty) : ty \in ResourceTypes}) =>
          cur.client \in {"self", "assumed"}
    /\ (cur.puts # <<>> \/ cpc \in PutPcs \cup {"success"}) => cur.queries = TypeOrder
    /\ \A i, j \in 1..Len(cur.puts) :
          i < j => TypeIndex(cur.puts[i].ty) < TypeIndex(cur.puts[j].ty)
    /\ \A i \in 1..Len(cur.puts) :
          /\ cur.puts[i].key =
                S3Key(cur.puts[i].ty, cur.account_id, cur.region, cur.timestamp)
          /\ ~cur.puts[i].ok => (i = Len(cur.puts) /\ cpc = "except")
    /\ cur.timestamp_at <= now
C20_Witness ==
    /\ cpc = "except"
    /\ cur.client = "assumed"
    /\ Len(cur.puts) = 3
    /\ cur.puts[1].ty = "vpcs" /\ cur.puts[1].ok
    /\ cur.puts[2].ty = "subnets" /\ cur.puts[2].ok
    /\ cur.puts[3].ty = "security_groups" /\ ~cur.puts[3].ok
    /\ cur.timestamp = StrFTime(0) /\ now = 1

(***************************************************************************)
(*                         PROPERTIES: PRODUCER                            *)
(***************************************************************************)
\* the regions entries of an account record, absent meaning none
NumRegions(acc) ==
    LET regions == Get(acc, "regions", List(<<>>))
    IN  IF regions.t = "set" THEN Cardinality(regions.v) ELSE Len(regions.v)
\* the work items the Work Expander yields: <<account, position>>
WorkItems ==
    UNION {{<<a, k>> : k \in 1..NumRegions(active_accounts[a])} :
           a \in 1..Len(active_accounts)}
PublishesOf(it) == {i \in 1..Len(sns) : sns[i].acct = it[1] /\ sns[i].pos = it[2]}
FailedPublishes == {i \in 1..Len(sns) : ~sns[i].ok}
\* equality of two character sequences up to letter case
SameLetter(c, d) ==
    c = d \/ \E k \in 1..26 : {c, d} = {UpperAlpha[k], LowerAlpha[k]}
EqualsIgnoringCase(a, b) ==
    Len(a) = Len(b) /\ \A i \in 1..Len(a) : SameLetter(a[i], b[i])
HasActiveStatus(acc) ==
    IF Has(acc, "status") /\ acc["status"].t = "str"
    THEN EqualsIgnoringCase(acc["status"].v, ACTIVE)
    ELSE FALSE
\* the scan completed, no record stopped the filter or an expansion, and
\* every work item carries its account_id
ItemsYielded ==
    /\ ~response.failed
    /\ \A i \in 1..Len(table) :
          /\ ~(Has(table[i], "status") /\ table[i]["status"].t = "none")
          /\ HasActiveStatus(table[i]) =>
                /\ ~(Has(table[i], "regions") /\ table[i]["regions"].t = "none")
                /\ NumRegions(table[i]) > 0 => Has(table[i], "account_id")

\* C2: when the Work Expander yields N work items and M of the publish
\* calls raise, every item gets exactly one publish request, the handler
\* returns status 200, and the summary reports total_events_published = N - M
\* and failed_events = M.
C2_PublishCounts ==
    (ppc = "done" /\ ItemsYielded) =>
        /\ presult.statusCode = 200
        /\ \A it \in WorkItems : Cardinality(PublishesOf(it)) = 1
        /\ Len(sns) = Cardinality(WorkItems)
        /\ presult.body.total_events_published = Cardinality(WorkItems) - Cardinality(FailedPublishes)
        /\ presult.body.failed_events = Cardinality(FailedPublishes)
C2_Witness ==
    /\ ppc = "done" /\ ItemsYielded
    /\ \E i, j \in 1..Len(sns) : i < j /\ ~sns[i].ok /\ sns[j].ok
    /\ presult.body.failed_events >= 1
    /\ presult.body.total_events_published >= 1

\* C4 (as claimed): an active account gets one work item, and one publish
\* request, per distinct region: no region occurs twice among the pairs of
\* an account; regions us-east-1, us-east-1, eu-west-1 give 2 work items.
C4_OneItemPerDistinctRegion ==
    /\ ppc = "pairs" =>
          /\ Len(account_region_pairs) = Cardinality(SeqToSet(account_region_pairs))
          /\ Get(active_accounts[ai], "regions", None) = List(DupRegions)
                => Len(account_region_pairs) = 2
    /\ \A i, j \in 1..Len(sns) :
          (i # j /\ sns[i].acct = sns[j].acct) => sns[i].region # sns[j].region

\* C5 (as claimed): only a failure of the registry scan ends the run with
\* the error result; a failure in filtering, expanding, building or publishing
\* one account's items does not.
C5_OnlyScanFailureAborts ==
    (ppc = "done" /\ presult.statusCode = 500) => response.failed

Filtered == ppc \in {"accounts", "pairs"} \/ (ppc = "done" /\ presult.statusCode = 200)

\* C6: the accounts that are expanded and published are exactly the scanned
\* accounts whose status equals "active" up to letter case: an account with
\* another status, or none, gets no work item and no publish request, and an
\* account whose status is "active" in any letter case is included.
C6_ActiveFilter ==
    /\ \A a \in 1..Len(active_accounts) : HasActiveStatus(active_accounts[a])
    /\ \A i \in 1..Len(sns) : sns[i].acct \in 1..Len(active_accounts)
    /\ ppc = "pairs" => ai \in 1..Len(active_accounts)
    /\ Filtered => active_accounts = SelectSeq(accounts, HasActiveStatus)
C6_Witness ==
    /\ ppc = "done" /\ presult.statusCode = 200
    /\ \E i \in 1..Len(accounts) : ~Has(accounts[i], "status")
    /\ \E a \in 1..Len(active_accounts) : active_accounts[a]["status"].v # ACTIVE
    /\ Len(sns) >= 1
    /\ presult.body.active_accounts = 1 /\ presult.body.total_accounts = 2

\* C11: when a page request of the registry scan raises, the run ends with
\* the error result (status 500) and no publish request has been made; no
\* publish request is ever made before the scan has completed.
C11_ScanFailureFatal ==
    /\ response.failed =>
          /\ ppc = "done"
          /\ presult.statusCode = 500
          /\ sns = <<>>
          /\ success_count = 0 /\ failure_count = 0 /\ total_events = 0
    /\ ppc = "scan" => sns = <<>>
    /\ sns # <<>> => (~response.failed /\ ~response.lek /\ scanned = Len(table))
C11_Witness ==
    /\ response.failed /\ ppc = "done"
    /\ response.requests >= 2
    /\ \E i \in 1..Len(accounts) : HasActiveStatus(accounts[i]) /\ NumRegions(accounts[i]) > 0

\* the items of a sequence of pages, one page after the other
RECURSIVE PagesItems(_)
PagesItems(pages) ==
    IF pages = <<>> THEN <<>> ELSE Head(pages).items \o PagesItems(Tail(pages))
LastPage == response.pages[Len(response.pages)]

\* C17: the scan requests page after page, each request starting where the
\* previous response's continuation token points, until a response carries
\* no token; only the last response received carries none; the account list
\* is the concatenation of the items of every page, each page once; and the
\* list that is filtered and expanded is that of the whole registry.
C17_CompleteScan ==
    /\ ppc \in {"scan", "filter"} => accounts = PagesItems(response.pages)
    /\ \A i \in 1..Len(response.pages) :
          /\ response.pages[i].start =
                (IF i = 1 THEN 0
                 ELSE response.pages[i - 1].start + Len(response.pages[i - 1].items))
          /\ i < Len(response.pages) => response.pages[i].lek
    /\ (ppc = "scan" /\ response.pages # <<>>) => LastPage.lek
    /\ ppc = "filter" =>
          /\ response.pages # <<>>
          /\ ~LastPage.lek
          /\ response.requests = Len(response.pages)
    /\ (ppc # "scan" /\ ~response.failed) => accounts = table
    /\ Filtered => active_accounts = FilterActiveAccounts(accounts)
C17_Witness ==
    /\ ppc = "filter"
    /\ Len(response.pages) >= 2
    /\ response.pages[1].items # <<>> /\ response.pages[2].items # <<>>
    /\ Len(accounts) = 2 /\ accounts = table

\* an account whose regions collection is absent or empty
ZeroRegions(acc) ==
    \/ ~Has(acc, "regions")
    \/ (acc["regions"].t \in {"list", "set"} /\ NumRegions(acc) = 0)
AtZeroRegionAccount ==
    /\ ppc = "accounts" /\ ai <= Len(active_accounts)
    /\ ZeroRegions(active_accounts[ai])

\* C18: an active account whose regions are empty or absent is counted among
\* the active accounts and gets no work item and no publish request; when the
\* loop is at such an account its next step is to move on to the following
\* account, with no counter changed and no error result; a run over a
\* registry with such accounts, whose scan completes and none of whose other
\* records stops the filter, an expansion or a payload, returns status 200;
\* and the summary counts the account in active_accounts.
C18_ZeroRegionAccount ==
    /\ [](/\ \A a \in 1..Len(active_accounts) :
                ZeroRegions(active_accounts[a]) =>
                   /\ \A i \in 1..Len(sns) : sns[i].acct # a
                   /\ \A i \in 1..Len(raisedAt) : raisedAt[i].acct # a
          /\ (ppc = "done" /\ ItemsYielded) => presult.statusCode = 200
          /\ (ppc = "done" /\ presult.statusCode = 200) =>
                presult.body.active_accounts =
                    Cardinality({i \in 1..Len(table) : HasActiveStatus(table[i])}))
    /\ [][(AtZeroRegionAccount /\ (ppc' # ppc \/ ai' # ai)) =>
             /\ ppc' = "accounts" /\ ai' = ai + 1
             /\ account_region_pairs' = <<>>
             /\ sns' = sns /\ presult' = presult
             /\ total_events' = total_events
             /\ success_count' = success_count /\ failure_count' = failure_count
         ]_vars
C18_Witness ==
    /\ ppc = "done" /\ presult.statusCode = 200 /\ ItemsYielded
    /\ Len(active_accounts) = 2
    /\ ZeroRegions(active_accounts[1])
    /\ \E i \in 1..Len(sns) : sns[i].acct = 2
    /\ presult.body.active_accounts = 2

\* the four fields of a work item the consumer reads
ItemFields == {"account_id", "account_name", "business_unit", "region"}
\* the record delivered for a publish request, and what the consumer decodes
Delivered(i) == SqsRecord(Notification(sns[i].req.Message))
RoundTrips(i) == ~DecodeRaises(Delivered(i))

\* C13 (as claimed): every payload the Dispatcher builds and publishes is
\* decoded by the Batch Consumer, from the delivered envelope, with
\* account_id, account_name, business_unit and region identical to the
\* payload's.
C13_RoundTrip ==
    \A i \in 1..Len(sns) :
        /\ RoundTrips(i)
        /\ \A k \in ItemFields :
              Get(Decode(Delivered(i)), k, None) = sns[i].payload[k]

\* C13 (amended): the decoded fields are identical to the payload's wherever
\* the payload's value is a string or None; a value JSON has no encoding
\* for (a Decimal account_id) is decoded as the string str() renders of it.
C13_RoundTripOfJsonValues ==
    \A i \in 1..Len(sns) :
        /\ RoundTrips(i)
        /\ LET sns_message == Decode(Delivered(i))
           IN  \A k \in ItemFields :
                 /\ sns[i].payload[k].t \in {"str", "none"} =>
                       Get(sns_message, k, None) = sns[i].payload[k]
                 /\ sns[i].payload[k].t = "decimal" =>
                       sns_message[k] = Str(Format(sns[i].payload[k]))
                 /\ k # "business_unit" => Has(sns_message, k)
C13_Witness ==
    /\ \E i \in 1..Len(sns) :
          /\ sns[i].payload["account_id"] = Decimal("123456789012")
          /\ Decode(Delivered(i))["account_id"] = Str("123456789012")
          /\ sns[i].payload["business_unit"] = None
          /\ Decode(Delivered(i))["business_unit"] = None
    /\ \E i \in 1..Len(sns) :
          /\ sns[i].payload["business_unit"] = Str("core")
          /\ Decode(Delivered(i))["business_unit"] = Str("core")
          /\ Decode(Delivered(i))["region"] = sns[i].region
====
